---- MODULE Spec2Model ----
(***************************************************************************)
(* Vertex-elimination algorithms of Rose & Tarjan as implemented in        *)
(* src/src: the FILL family (fill.h), LEX M (lex_m.h), LEX P (lex_p.h) and *)
(* the base-16 LSD radix sort (radix_sort.h).                              *)
(*                                                                         *)
(* A graph is the boost adjacency_list<vecS, vecS, undirectedS> the tests  *)
(* instantiate: vertex descriptors are 0..n-1 and every vertex owns the    *)
(* list of its neighbours in edge-insertion order.                         *)
(***************************************************************************)
EXTENDS Integers, Sequences, FiniteSets, TLC

VARIABLES
    g,      \* the graph handed to the algorithm (fill mutates it)
    g0,     \* the caller's copy of the graph taken before any call
    order,  \* the vertex order: input of the FILL family, output of LEX M / LEX P
    pc,     \* which function is running, and where ("idle" between calls)
    fills,  \* number of completed fill() calls on g
    ret,    \* [fn, val]: the last completed call and its return value
    fl,     \* locals of fill / fill_in / is_perfect_elimination_order
    lm,     \* locals of lex_m
    lp,     \* locals of lex_p
    rs      \* locals and arguments of radix_sort

vars == <<g, g0, order, pc, fills, ret, fl, lm, lp, rs>>

(***************************************************************************)
(* Bounds of the model.                                                    *)
(***************************************************************************)
MaxFillVertices == 4   \* graphs of the FILL specification have 1..4 vertices
MaxLexVertices == 5    \* graphs of the LEX specifications have 1..5 vertices
MaxFills == 2          \* fill() is called at most twice on the same graph
MaxLen == 3            \* radix_sort inputs have at most 3 elements
MaxDigit == 1          \* every base-16 digit of a radix_sort key is in 0..1

None == [fn |-> "none", val |-> {}]
NoLocals == [i |-> 0]

(***************************************************************************)
(* Graph view (utils.h and the boost calls the algorithms make).           *)
(***************************************************************************)
Range(s) == {s[k] : k \in DOMAIN s}

num_vertices(gr) == gr.n

iter_vertices(gr) == 0 .. (gr.n - 1)

iter_neighbors(gr, v) == gr.adj[v]

Nbrs(gr, v) == Range(iter_neighbors(gr, v))

add_edge(u, v, gr) ==
    [gr EXCEPT !.adj[u] = Append(@, v), !.adj[v] = Append(@, u)]

Edges(gr) == UNION {{{v, w} : w \in Nbrs(gr, v)} : v \in iter_vertices(gr)}

Min(S) == CHOOSE x \in S : \A y \in S : x <= y
Max(S) == CHOOSE x \in S : \A y \in S : x >= y

\* The elements of the finite set S of integers in ascending order.
RECURSIVE Ascending(_)
Ascending(S) == IF S = {} THEN <<>> ELSE <<Min(S)>> \o Ascending(S \ {Min(S)})

\* All arrangements of the finite set S as a sequence without repetition.
RECURSIVE Arrangements(_)
Arrangements(S) ==
    IF S = {} THEN {<<>>}
    ELSE UNION {{<<x>> \o s : s \in Arrangements(S \ {x})} : x \in S}

\* All vertex orders of n vertices: order[i] is the vertex at index i.
Permutations0(n) ==
    {[i \in 0 .. n - 1 |-> s[i + 1]] : s \in Arrangements(0 .. n - 1)}

(***************************************************************************)
(* FILL family (fill.h).  The three functions are three copies of one      *)
(* loop; each copy is translated on its own.                               *)
(***************************************************************************)

\* std::unordered_map::operator[] : a missing key reads as the default value.
MapGet(m, k, d) == IF k \in DOMAIN m THEN m[k] ELSE d

\* for (i = 0; i < order.size(); i++) index_of[order[i]] = i;
index_map(ord, n) ==
    [v \in 0 .. n - 1 |->
        IF \E i \in DOMAIN ord : ord[i] = v
        THEN Max({i \in DOMAIN ord : ord[i] = v})
        ELSE 0]

\* Variant of initial_succ: the comparison of the indices is reversed.
initial_succ_reversed(gr, index_of) ==
    [v \in iter_vertices(gr) |->
        {w \in Nbrs(gr, v) : index_of[v] > index_of[w]}]

\* w is a successor of v iff v--w and v comes before w in the order.
initial_succ(gr, index_of) ==
    [v \in iter_vertices(gr) |->
        {w \in Nbrs(gr, v) : index_of[v] < index_of[w]}]

\* Variant: the farthest successor instead of the closest one.
find_max_index(succ_v, index_of, n) ==
    IF succ_v = {} THEN n ELSE Max({index_of[w] : w \in succ_v})

\* Variant of find_min_index: the comparison is reversed, so min_index is
\* never lowered.
find_min_index_reversed(succ_v, index_of, n) ==
    Max({n} \cup {index_of[w] : w \in succ_v})

\* min_index starts at n_vertices and is lowered by every successor of v.
find_min_index(succ_v, index_of, n) ==
    Min({n} \cup {index_of[w] : w \in succ_v})

\* closest = order[min_index].  With min_index = n_vertices (succ[v] empty) the
\* read is one past the end of the vector: any vertex, or a value that is no
\* vertex (written n_vertices), may come back.
closest_lookup(ord, min_index, n) ==
    IF min_index \in DOMAIN ord THEN {ord[min_index]} ELSE 0 .. n

\* Variant of fill_iteration: the edge is added to the graph but the new
\* successor of closest is not recorded.
RECURSIVE fill_iteration_no_insert(_, _, _, _, _)
fill_iteration_no_insert(gr, succ, added, closest, visit) ==
    IF visit = <<>> THEN [g |-> gr, succ |-> succ, added |-> added]
    ELSE LET w == Head(visit) IN
         IF w # closest /\ w \notin MapGet(succ, closest, {})
         THEN fill_iteration_no_insert(add_edge(closest, w, gr), succ,
                                       Append(added, <<closest, w>>),
                                       closest, Tail(visit))
         ELSE fill_iteration_no_insert(gr, succ, added, closest, Tail(visit))

\* Variant of fill_iteration: the new successor is recorded but the edge is
\* added only when closest is the smaller vertex.
RECURSIVE fill_iteration_half(_, _, _, _, _)
fill_iteration_half(gr, succ, added, closest, visit) ==
    IF visit = <<>> THEN [g |-> gr, succ |-> succ, added |-> added]
    ELSE LET w == Head(visit) IN
         IF w # closest /\ w \notin MapGet(succ, closest, {})
         THEN fill_iteration_half(IF closest < w THEN add_edge(closest, w, gr) ELSE gr,
                                  [succ EXCEPT ![closest] = @ \cup {w}],
                                  IF closest < w THEN Append(added, <<closest, w>>)
                                                 ELSE added,
                                  closest, Tail(visit))
         ELSE fill_iteration_half(gr, succ, added, closest, Tail(visit))

\* Variant of fill_iteration: closest itself is not exempted.
RECURSIVE fill_iteration_no_distinct(_, _, _, _, _)
fill_iteration_no_distinct(gr, succ, added, closest, visit) ==
    IF visit = <<>> THEN [g |-> gr, succ |-> succ, added |-> added]
    ELSE LET w == Head(visit) IN
         IF w \notin MapGet(succ, closest, {})
         THEN fill_iteration_no_distinct(add_edge(closest, w, gr),
                             [succ EXCEPT ![closest] = @ \cup {w}],
                             Append(added, <<closest, w>>),
                             closest, Tail(visit))
         ELSE fill_iteration_no_distinct(gr, succ, added, closest, Tail(visit))

\* The second loop over succ[v] of fill(); visit is the order in which the
\* unordered_set hands out the successors of v.
RECURSIVE fill_iteration(_, _, _, _, _)
fill_iteration(gr, succ, added, closest, visit) ==
    IF visit = <<>> THEN [g |-> gr, succ |-> succ, added |-> added]
    ELSE LET w == Head(visit) IN
         IF w # closest /\ w \notin MapGet(succ, closest, {})
         THEN fill_iteration(add_edge(closest, w, gr),
                             [succ EXCEPT ![closest] = @ \cup {w}],
                             Append(added, <<closest, w>>),
                             closest, Tail(visit))
         ELSE fill_iteration(gr, succ, added, closest, Tail(visit))

\* Variant of fill_in_iteration: the edge is emitted but the new successor of
\* closest is not recorded.
RECURSIVE fill_in_iteration_no_insert(_, _, _, _)
fill_in_iteration_no_insert(succ, fill_in_edges, closest, visit) ==
    IF visit = <<>> THEN [succ |-> succ, fill_in_edges |-> fill_in_edges]
    ELSE LET w == Head(visit) IN
         IF w # closest /\ w \notin MapGet(succ, closest, {})
         THEN fill_in_iteration_no_insert(succ,
                                fill_in_edges \cup
                                    {IF closest < w THEN <<closest, w>>
                                                    ELSE <<w, closest>>},
                                closest, Tail(visit))
         ELSE fill_in_iteration_no_insert(succ, fill_in_edges, closest, Tail(visit))

\* The second loop over succ[v] of fill_in().
RECURSIVE fill_in_iteration(_, _, _, _)
fill_in_iteration(succ, fill_in_edges, closest, visit) ==
    IF visit = <<>> THEN [succ |-> succ, fill_in_edges |-> fill_in_edges]
    ELSE LET w == Head(visit) IN
         IF w # closest /\ w \notin MapGet(succ, closest, {})
         THEN fill_in_iteration([succ EXCEPT ![closest] = @ \cup {w}],
                                fill_in_edges \cup
                                    {IF closest < w THEN <<closest, w>>
                                                    ELSE <<w, closest>>},
                                closest, Tail(visit))
         ELSE fill_in_iteration(succ, fill_in_edges, closest, Tail(visit))

\* Variant of is_peo_iteration: closest itself is not exempted.
is_peo_iteration_no_exempt(succ, v, closest) ==
    ~ \E w \in succ[v] : w \notin MapGet(succ, closest, {})

\* The second loop over succ[v] of is_perfect_elimination_order(): TRUE when
\* the loop runs to its end, FALSE when it returns false.
is_peo_iteration(succ, v, closest) ==
    ~ \E w \in succ[v] : w # closest /\ w \notin MapGet(succ, closest, {})

\* fill_in(g, order) as a function of its arguments.  Where the closest
\* successor is read past the end of the order, succ[v] is empty and the
\* second loop does not run, so the value read cannot reach the result.
RECURSIVE fill_in_loop(_, _, _, _, _, _)
fill_in_loop(ord, n, index_of, succ, fill_in_edges, i) ==
    IF i = n - 1 THEN fill_in_edges
    ELSE LET v == ord[i]
             min_index == find_min_index(succ[v], index_of, n)
             closest == IF min_index < n THEN ord[min_index] ELSE n
             r == fill_in_iteration(succ, fill_in_edges, closest, Ascending(succ[v]))
         IN  fill_in_loop(ord, n, index_of, r.succ, r.fill_in_edges, i + 1)

fill_in(gr, ord) ==
    LET n == num_vertices(gr)
        index_of == index_map(ord, n)
    IN  fill_in_loop(ord, n, index_of, initial_succ(gr, index_of), {}, 0)

RECURSIVE is_peo_loop(_, _, _, _, _)
is_peo_loop(ord, n, index_of, succ, i) ==
    IF i = n - 1 THEN TRUE
    ELSE LET v == ord[i]
             min_index == find_min_index(succ[v], index_of, n)
             closest == IF min_index < n THEN ord[min_index] ELSE n
         IN  IF is_peo_iteration(succ, v, closest)
             THEN is_peo_loop(ord, n, index_of, succ, i + 1)
             ELSE FALSE

is_perfect_elimination_order(gr, ord) ==
    LET n == num_vertices(gr)
        index_of == index_map(ord, n)
    IN  is_peo_loop(ord, n, index_of, initial_succ(gr, index_of), 0)

(***************************************************************************)
(* Radix sort (radix_sort.h): base 16, least significant digit first.      *)
(* s is the range [begin, end) as a sequence, map the key of every value.  *)
(***************************************************************************)
KeyBits == 8        \* sizeof(CompareKey) * CHAR_BIT for unsigned char keys
LabelBits == 64     \* the same for the labels of lex_m (vertices_size_type)

ShiftRight(x, shift) == x \div (2 ^ shift)

Digit(x, shift) == ShiftRight(x, shift) % 16

\* max = std::max(map[*it], max) over the range, from 0.
radix_max(s, map) == Max({0} \cup {MapGet(map, s[k], 0) : k \in DOMAIN s})

\* Variant of fill_buckets: a value is put at the front of its bucket.
RECURSIVE fill_buckets_front(_, _, _, _)
fill_buckets_front(buckets, s, map, shift) ==
    IF s = <<>> THEN buckets
    ELSE fill_buckets_front(
             [buckets EXCEPT ![Digit(MapGet(map, Head(s), 0), shift)] =
                                 <<Head(s)>> \o @],
             Tail(s), map, shift)

\* Lines 43-46: every value is appended to the bucket of its digit.
RECURSIVE fill_buckets(_, _, _, _)
fill_buckets(buckets, s, map, shift) ==
    IF s = <<>> THEN buckets
    ELSE fill_buckets(
             [buckets EXCEPT ![Digit(MapGet(map, Head(s), 0), shift)] =
                                 Append(@, Head(s))],
             Tail(s), map, shift)

\* Lines 48-52: the buckets i..15 are copied back one after the other.
RECURSIVE copy_buckets(_, _)
copy_buckets(buckets, i) ==
    IF i = 16 THEN <<>> ELSE buckets[i] \o copy_buckets(buckets, i + 1)

radix_pass(s, map, shift) ==
    copy_buckets(fill_buckets([i \in 0 .. 15 |-> <<>>], s, map, shift), 0)

\* for (shift = 0; shift < key_bits && (max >> shift); shift += 4)
radix_continue(max, shift, key_bits) ==
    shift < key_bits /\ ShiftRight(max, shift) # 0

RECURSIVE radix_loop(_, _, _, _, _)
radix_loop(s, map, max, shift, key_bits) ==
    IF radix_continue(max, shift, key_bits)
    THEN radix_loop(radix_pass(s, map, shift), map, max, shift + 4, key_bits)
    ELSE s

radix_sort(s, map, key_bits) == radix_loop(s, map, radix_max(s, map), 0, key_bits)

(***************************************************************************)
(* LEX M (lex_m.h).                                                        *)
(***************************************************************************)
SIZE_MAX == 2147483647   \* stands for the largest size_t value, 2^64 - 1

\* Variant of decrement: the index is left as it is.
decrement_not(index) == index

\* index-- on an unsigned index.
decrement(index) == IF index = 0 THEN SIZE_MAX ELSE index - 1

push_back(to_reach, key, v) == [to_reach EXCEPT ![key] = Append(@, v)]

\* Variant of reach_neighbors: the label is incremented before the vertex is
\* queued under it.
RECURSIVE reach_neighbors_increment_first(_, _, _)
reach_neighbors_increment_first(st, unnumbered, nbrs) ==
    IF nbrs = <<>> THEN st
    ELSE LET v == Head(nbrs) IN
         IF v \in unnumbered
         THEN reach_neighbors_increment_first(
                  [st EXCEPT !.reached = @ \cup {v},
                             !.to_reach = push_back(@, st.label[v] + 1, v),
                             !.queued = Append(@, <<st.label[v] + 1, v>>),
                             !.label[v] = @ + 1],
                  unnumbered, Tail(nbrs))
         ELSE reach_neighbors_increment_first(st, unnumbered, Tail(nbrs))

\* Lines 62-68: every unnumbered neighbour of cur_vertex is marked reached,
\* queued under its label and then has its label incremented.
RECURSIVE reach_neighbors(_, _, _)
reach_neighbors(st, unnumbered, nbrs) ==
    IF nbrs = <<>> THEN st
    ELSE LET v == Head(nbrs) IN
         IF v \in unnumbered
         THEN reach_neighbors(
                  [st EXCEPT !.reached = @ \cup {v},
                             !.to_reach = push_back(@, st.label[v], v),
                             !.queued = Append(@, <<st.label[v], v>>),
                             !.label[v] = @ + 1],
                  unnumbered, Tail(nbrs))
         ELSE reach_neighbors(st, unnumbered, Tail(nbrs))

\* Variant of explore_neighbors: a vertex reached through a chain never has
\* its label incremented.
RECURSIVE explore_neighbors_no_chain(_, _, _, _)
explore_neighbors_no_chain(st, unnumbered, l, nbrs) ==
    IF nbrs = <<>> THEN st
    ELSE LET w == Head(nbrs) IN
         IF w \in unnumbered /\ w \notin st.reached
         THEN explore_neighbors_no_chain(
                  [st EXCEPT !.reached = @ \cup {w},
                             !.to_reach = push_back(@, l, w),
                             !.queued = Append(@, <<l, w>>)],
                  unnumbered, l, Tail(nbrs))
         ELSE explore_neighbors_no_chain(st, unnumbered, l, Tail(nbrs))

\* Variant of explore_neighbors: a label equal to the level counts as greater.
RECURSIVE explore_neighbors_geq(_, _, _, _)
explore_neighbors_geq(st, unnumbered, l, nbrs) ==
    IF nbrs = <<>> THEN st
    ELSE LET w == Head(nbrs) IN
         IF w \in unnumbered /\ w \notin st.reached
         THEN IF st.label[w] >= l
              THEN explore_neighbors_geq(
                       [st EXCEPT !.reached = @ \cup {w},
                                  !.to_reach = push_back(@, st.label[w], w),
                                  !.queued = Append(@, <<st.label[w], w>>),
                                  !.label[w] = @ + 1],
                       unnumbered, l, Tail(nbrs))
              ELSE explore_neighbors_geq(
                       [st EXCEPT !.reached = @ \cup {w},
                                  !.to_reach = push_back(@, l, w),
                                  !.queued = Append(@, <<l, w>>)],
                       unnumbered, l, Tail(nbrs))
         ELSE explore_neighbors_geq(st, unnumbered, l, Tail(nbrs))

\* Lines 81-97: the neighbours of the vertex popped at level l.
RECURSIVE explore_neighbors(_, _, _, _)
explore_neighbors(st, unnumbered, l, nbrs) ==
    IF nbrs = <<>> THEN st
    ELSE LET w == Head(nbrs) IN
         IF w \in unnumbered /\ w \notin st.reached
         THEN IF st.label[w] > l
              THEN explore_neighbors(
                       [st EXCEPT !.reached = @ \cup {w},
                                  !.to_reach = push_back(@, st.label[w], w),
                                  !.queued = Append(@, <<st.label[w], w>>),
                                  !.label[w] = @ + 1],
                       unnumbered, l, Tail(nbrs))
              ELSE explore_neighbors(
                       [st EXCEPT !.reached = @ \cup {w},
                                  !.to_reach = push_back(@, l, w),
                                  !.queued = Append(@, <<l, w>>)],
                       unnumbered, l, Tail(nbrs))
         ELSE explore_neighbors(st, unnumbered, l, Tail(nbrs))

\* for (l = 0; l < 2 * n_unique_labels; l += 2) while (!to_reach[l].empty()):
\* the level, from l on, whose queue is popped next; -1 when the for loop ends.
RECURSIVE next_level(_, _, _)
next_level(to_reach, l, n_unique_labels) ==
    IF ~ (l < 2 * n_unique_labels) THEN -1
    ELSE IF to_reach[l] # <<>> THEN l
    ELSE next_level(to_reach, l + 2, n_unique_labels)

\* Lines 72-99: as long as a level has a vertex queued, the front of the first
\* such queue is popped and its neighbours are explored.
RECURSIVE explore_levels(_, _, _)
explore_levels(st, unnumbered, gr) ==
    LET l == next_level(st.to_reach, st.l, st.n_unique_labels) IN
    IF l = -1 THEN st
    ELSE LET v == Head(st.to_reach[l])
             popped == [st EXCEPT !.to_reach[l] = Tail(@), !.l = l,
                                  !.popped = Append(@, <<l, v>>)]
         IN  explore_levels(explore_neighbors(popped, unnumbered, l,
                                              iter_neighbors(gr, v)),
                            unnumbered, gr)

\* Variant of relabel: every vertex gets the label 0.
relabel_flat(label, prev_label, n_unique_labels, to_relabel) ==
    [label |-> [v \in DOMAIN label |->
                   IF v \in Range(to_relabel) THEN 0 ELSE label[v]],
     n_unique_labels |-> 1]

\* Variant of relabel: the new labels are 0, 1, 2, ... instead of the even
\* values.
RECURSIVE relabel_step_one(_, _, _, _)
relabel_step_one(label, prev_label, n_unique_labels, to_relabel) ==
    IF to_relabel = <<>> THEN [label |-> label, n_unique_labels |-> n_unique_labels]
    ELSE LET v == Head(to_relabel)
             changed == label[v] # prev_label
             k == IF changed THEN n_unique_labels + 1 ELSE n_unique_labels
         IN  relabel_step_one([label EXCEPT ![v] = k - 1],
                              IF changed THEN label[v] ELSE prev_label,
                              k, Tail(to_relabel))

\* Lines 110-120 over the sorted vertices.
RECURSIVE relabel(_, _, _, _)
relabel(label, prev_label, n_unique_labels, to_relabel) ==
    IF to_relabel = <<>> THEN [label |-> label, n_unique_labels |-> n_unique_labels]
    ELSE LET v == Head(to_relabel)
             changed == label[v] # prev_label
             k == IF changed THEN n_unique_labels + 1 ELSE n_unique_labels
         IN  relabel([label EXCEPT ![v] = 2 * (k - 1)],
                     IF changed THEN label[v] ELSE prev_label,
                     k, Tail(to_relabel))

(***************************************************************************)
(* Input graphs.                                                           *)
(***************************************************************************)
AllPairs(n) == {e \in SUBSET (0 .. n - 1) : Cardinality(e) = 2}

\* The graph with vertices 0..n-1 and edge set E, every adjacency list in
\* ascending order of the neighbour.  All labelled graphs are inputs, so an
\* unlabelled graph occurs with every adjacency order that a ranking of its
\* vertices induces.
GraphOn(n, E) ==
    [n |-> n,
     adj |-> [v \in 0 .. n - 1 |-> Ascending({w \in 0 .. n - 1 : {v, w} \in E})]]

SimpleGraphs(n) == {GraphOn(n, E) : E \in SUBSET AllPairs(n)}

RECURSIVE ReachableFrom(_, _)
ReachableFrom(gr, S) ==
    LET T == S \cup UNION {Nbrs(gr, v) : v \in S}
    IN  IF T = S THEN S ELSE ReachableFrom(gr, T)

Connected(gr) == ReachableFrom(gr, {0}) = iter_vertices(gr)

\* The graph and order of the known_graph test case (test_fill.cc).
KnownGraph ==
    GraphOn(6, {{0, 1}, {0, 2}, {1, 3}, {2, 3}, {0, 4}, {3, 4},
                {0, 5}, {1, 5}, {2, 5}, {3, 5}})

KnownOrder == [i \in 0 .. 5 |-> <<4, 3, 2, 1, 0, 5>>[i + 1]]

(***************************************************************************)
(* Calls of the FILL family on g with the order fixed at the start.        *)
(***************************************************************************)
\* lookups lists the indices at which line 67 (129, 195) has read the order;
\* added lists the add_edge calls of fill.
fill_locals(gr, ord) ==
    LET index_of == index_map(ord, num_vertices(gr))
    IN  [i |-> 0, index_of |-> index_of, succ |-> initial_succ(gr, index_of),
         min_index |-> num_vertices(gr), closest |-> num_vertices(gr),
         fill_in_edges |-> {}, added |-> <<>>, lookups |-> <<>>]

FillCall ==
    /\ pc = "idle" /\ fills < MaxFills
    /\ pc' = "fill"
    /\ fl' = fill_locals(g, order)
    /\ ret' = None
    /\ UNCHANGED <<g, g0, order, fills, lm, lp, rs>>

FillIteration ==
    /\ pc = "fill" /\ fl.i # num_vertices(g) - 1
    /\ LET v == order[fl.i]
           min_index == find_min_index(fl.succ[v], fl.index_of, num_vertices(g))
       IN  \E closest \in closest_lookup(order, min_index, num_vertices(g)) :
           \E visit \in Arrangements(fl.succ[v]) :
              LET r == fill_iteration(g, fl.succ, fl.added, closest, visit)
              IN  /\ g' = r.g
                  /\ fl' = [fl EXCEPT !.i = @ + 1, !.succ = r.succ,
                                      !.added = r.added,
                                      !.min_index = min_index,
                                      !.lookups = Append(@, min_index),
                                      !.closest = closest]
    /\ UNCHANGED <<g0, order, pc, fills, ret, lm, lp, rs>>

FillReturn ==
    /\ pc = "fill" /\ fl.i = num_vertices(g) - 1
    /\ pc' = "idle"
    /\ fills' = fills + 1
    /\ ret' = [fn |-> "fill", val |-> Range(fl.added)]
    /\ fl' = NoLocals
    /\ UNCHANGED <<g, g0, order, lm, lp, rs>>

FillInCall ==
    /\ pc = "idle"
    /\ pc' = "fill_in"
    /\ fl' = fill_locals(g, order)
    /\ ret' = None
    /\ UNCHANGED <<g, g0, order, fills, lm, lp, rs>>

\* Variant of FillInIteration: the edges are added to the graph as well, the
\* way fill does.
FillInIteration_add_edge ==
    /\ pc = "fill_in" /\ fl.i # num_vertices(g) - 1
    /\ LET v == order[fl.i]
           min_index == find_min_index(fl.succ[v], fl.index_of, num_vertices(g))
       IN  \E closest \in closest_lookup(order, min_index, num_vertices(g)) :
           \E visit \in Arrangements(fl.succ[v]) :
              LET r == fill_in_iteration(fl.succ, fl.fill_in_edges, closest, visit)
              IN  /\ fl' = [fl EXCEPT !.i = @ + 1, !.succ = r.succ,
                                      !.fill_in_edges = r.fill_in_edges,
                                      !.min_index = min_index,
                                      !.lookups = Append(@, min_index),
                                      !.closest = closest]
                  /\ g' = fill_iteration(g, fl.succ, <<>>, closest, visit).g
    /\ UNCHANGED <<g0, order, pc, fills, ret, lm, lp, rs>>

FillInIteration ==
    /\ pc = "fill_in" /\ fl.i # num_vertices(g) - 1
    /\ LET v == order[fl.i]
           min_index == find_min_index(fl.succ[v], fl.index_of, num_vertices(g))
       IN  \E closest \in closest_lookup(order, min_index, num_vertices(g)) :
           \E visit \in Arrangements(fl.succ[v]) :
              LET r == fill_in_iteration(fl.succ, fl.fill_in_edges, closest, visit)
              IN  fl' = [fl EXCEPT !.i = @ + 1, !.succ = r.succ,
                                  !.fill_in_edges = r.fill_in_edges,
                                  !.min_index = min_index,
                                      !.lookups = Append(@, min_index),
                                  !.closest = closest]
    /\ UNCHANGED <<g, g0, order, pc, fills, ret, lm, lp, rs>>

FillInReturn ==
    /\ pc = "fill_in" /\ fl.i = num_vertices(g) - 1
    /\ pc' = "idle"
    /\ ret' = [fn |-> "fill_in", val |-> fl.fill_in_edges]
    /\ fl' = NoLocals
    /\ UNCHANGED <<g, g0, order, fills, lm, lp, rs>>

IsPeoCall ==
    /\ pc = "idle"
    /\ pc' = "is_peo"
    /\ fl' = fill_locals(g, order)
    /\ ret' = None
    /\ UNCHANGED <<g, g0, order, fills, lm, lp, rs>>

\* One pass of the main loop; a successor of v missing from succ[closest]
\* ends the call with false.
IsPeoIteration ==
    /\ pc = "is_peo" /\ fl.i # num_vertices(g) - 1
    /\ LET v == order[fl.i]
           min_index == find_min_index(fl.succ[v], fl.index_of, num_vertices(g))
       IN  \E closest \in closest_lookup(order, min_index, num_vertices(g)) :
              IF is_peo_iteration(fl.succ, v, closest)
              THEN /\ fl' = [fl EXCEPT !.i = @ + 1, !.min_index = min_index,
                                      !.lookups = Append(@, min_index),
                                       !.closest = closest]
                   /\ UNCHANGED <<pc, ret>>
              ELSE /\ pc' = "idle"
                   /\ ret' = [fn |-> "is_peo", val |-> FALSE]
                   /\ fl' = NoLocals
    /\ UNCHANGED <<g, g0, order, fills, lm, lp, rs>>

IsPeoReturn ==
    /\ pc = "is_peo" /\ fl.i = num_vertices(g) - 1
    /\ pc' = "idle"
    /\ ret' = [fn |-> "is_peo", val |-> TRUE]
    /\ fl' = NoLocals
    /\ UNCHANGED <<g, g0, order, fills, lm, lp, rs>>

InitFill ==
    /\ g \in UNION {SimpleGraphs(n) : n \in 1 .. MaxFillVertices}
              \cup {KnownGraph}
    /\ g0 = g
    /\ order \in IF g = KnownGraph THEN {KnownOrder}
                  ELSE Permutations0(num_vertices(g))
    /\ pc = "idle"
    /\ fills = 0
    /\ ret = None
    /\ fl = NoLocals
    /\ lm = NoLocals
    /\ lp = NoLocals
    /\ rs = NoLocals

NextFill ==
    \/ FillCall \/ FillIteration \/ FillReturn
    \/ FillInCall \/ FillInIteration \/ FillInReturn
    \/ IsPeoCall \/ IsPeoIteration \/ IsPeoReturn

SpecFill == InitFill /\ [][NextFill]_vars

(***************************************************************************)
(* A call of lex_m on g.  order is the vector under construction.          *)
(***************************************************************************)

\* Lines 40-49: the locals; cur_vertex is *unnumbered.begin(), any vertex.
LexMCall ==
    /\ pc = "idle" /\ ret = None
    /\ pc' = "lex_m_loop"
    /\ \E cur_vertex \in iter_vertices(g) :
          lm' = [unnumbered |-> iter_vertices(g),
                 n_unique_labels |-> 1,
                 label |-> [v \in iter_vertices(g) |-> 0],
                 unrelabelled |-> [v \in iter_vertices(g) |-> 0],
                 to_reach |-> [k \in 0 .. 2 * num_vertices(g) |-> <<>>],
                 reached |-> {},
                 queued |-> <<>>,
                 popped |-> <<>>,
                 cur_vertex |-> cur_vertex,
                 index |-> num_vertices(g) - 1,
                 l |-> 0]
    /\ order' = [i \in 0 .. num_vertices(g) - 1 |-> 0]
    /\ ret' = None
    /\ UNCHANGED <<g, g0, fills, fl, lp, rs>>

\* Lines 52-124, one pass of the main loop: cur_vertex gets the index, its
\* unnumbered neighbours are reached and the unnumbered vertices are explored
\* level by level; when none is left the order is returned (lines 101-102 and
\* 126); otherwise the unnumbered vertices, in the order the unordered_set
\* hands them out, are sorted by label and relabelled, the last one is the
\* next cur_vertex, and index is decremented and tested.
\* queued and popped list, for this pass, the <<key, vertex>> pairs pushed on
\* and popped from to_reach.
\* unrelabelled keeps the labels as they were when the relabelling started.
LexMIteration ==
    /\ pc = "lex_m_loop"
    /\ order' = [order EXCEPT ![lm.index] = lm.cur_vertex]
    /\ LET unnumbered == lm.unnumbered \ {lm.cur_vertex}
           cleared == [lm EXCEPT !.unnumbered = unnumbered,
                                 !.to_reach = [k \in DOMAIN @ |-> <<>>],
                                 !.reached = {},
                                 !.queued = <<>>,
                                 !.popped = <<>>,
                                 !.l = 0]
           neighbors == reach_neighbors(cleared, unnumbered,
                                        iter_neighbors(g, lm.cur_vertex))
       IN  \E explored \in {explore_levels(neighbors, unnumbered, g)} :
           IF unnumbered = {}
           THEN /\ lm' = [explored EXCEPT !.unrelabelled = explored.label]
                /\ pc' = "idle"
                /\ ret' = [fn |-> "lex_m", val |-> order']
           ELSE \E unsorted \in Arrangements(unnumbered) :
                \E to_relabel \in {radix_sort(unsorted, explored.label, LabelBits)} :
                \E r \in {relabel(explored.label, explored.label[Head(to_relabel)],
                                  1, to_relabel)} :
                  LET index == decrement(lm.index)
                  IN  /\ lm' = [explored EXCEPT
                                    !.label = r.label,
                                    !.unrelabelled = explored.label,
                                    !.n_unique_labels = r.n_unique_labels,
                                    !.cur_vertex = to_relabel[Len(to_relabel)],
                                    !.index = index]
                      /\ IF index < num_vertices(g)
                         THEN pc' = "lex_m_loop" /\ ret' = ret
                         ELSE pc' = "idle" /\ ret' = [fn |-> "lex_m", val |-> order']
    /\ UNCHANGED <<g, g0, fills, fl, lp, rs>>

(***************************************************************************)
(* LEX P (lex_p.h).  The Label blocks live in blocks, a block being named  *)
(* by its position there (0 is nullptr); the LabeledVertex record of a     *)
(* vertex is named by the vertex, and label[v] is its label pointer.       *)
(***************************************************************************)

\* new Label(n): a block with an empty vertex_map and null links.
new_label(blocks) ==
    Append(blocks, [vertex_map |-> {}, prev |-> 0, next |-> 0])

\* Variant of scan_labels: the last block of the list that holds a vertex
\* still in unordered.
RECURSIVE scan_labels_last(_, _, _)
scan_labels_last(blocks, label, unordered) ==
    IF label = 0 THEN 0
    ELSE LET rest == scan_labels_last(blocks, blocks[label].next, unordered)
         IN  IF rest # 0 THEN rest
             ELSE IF blocks[label].vertex_map \cap unordered # {} THEN label
             ELSE 0

\* Lines 78-88: the first block from head on that holds a vertex still in
\* unordered; 0 when the list ends first.
RECURSIVE scan_labels(_, _, _)
scan_labels(blocks, label, unordered) ==
    IF label = 0 THEN 0
    ELSE IF blocks[label].vertex_map \cap unordered # {} THEN label
    ELSE scan_labels(blocks, blocks[label].next, unordered)

\* Variant of refine: fix is not consulted, every neighbour gets a block of
\* its own, and fix keeps the last one.
RECURSIVE refine_always_new(_, _, _)
refine_always_new(st, unordered, nbrs) ==
    IF nbrs = <<>> THEN st
    ELSE LET neighbor_id == Head(nbrs) IN
         IF neighbor_id \in unordered
         THEN LET old == st.label[neighbor_id]
                  blocks == new_label(st.blocks)
                  new == Len(blocks)
                  fix == [k \in DOMAIN st.fix \cup {old} |->
                             IF k = old THEN new ELSE st.fix[k]]
                  erased == [blocks EXCEPT ![old].vertex_map = @ \ {neighbor_id}]
              IN  refine_always_new([st EXCEPT
                             !.blocks = [erased EXCEPT ![new].vertex_map =
                                                          @ \cup {neighbor_id}],
                             !.label[neighbor_id] = new,
                             !.fix = fix],
                         unordered, Tail(nbrs))
         ELSE refine_always_new(st, unordered, Tail(nbrs))

\* Variant of refine: the neighbour is not erased from the map of the block
\* it leaves.
RECURSIVE refine_no_erase(_, _, _)
refine_no_erase(st, unordered, nbrs) ==
    IF nbrs = <<>> THEN st
    ELSE LET neighbor_id == Head(nbrs) IN
         IF neighbor_id \in unordered
         THEN LET old == st.label[neighbor_id]
                  known == old \in DOMAIN st.fix
                  blocks == IF known THEN st.blocks ELSE new_label(st.blocks)
                  new == IF known THEN st.fix[old] ELSE Len(blocks)
                  fix == IF known THEN st.fix ELSE (old :> new) @@ st.fix
              IN  refine_no_erase([st EXCEPT
                             !.blocks = [blocks EXCEPT ![new].vertex_map =
                                                          @ \cup {neighbor_id}],
                             !.label[neighbor_id] = new,
                             !.fix = fix],
                         unordered, Tail(nbrs))
         ELSE refine_no_erase(st, unordered, Tail(nbrs))

\* Lines 95-119: every neighbour still in unordered moves to the new block
\* recorded in fix for its block, which is created on first use.
RECURSIVE refine(_, _, _)
refine(st, unordered, nbrs) ==
    IF nbrs = <<>> THEN st
    ELSE LET neighbor_id == Head(nbrs) IN
         IF neighbor_id \in unordered
         THEN LET old == st.label[neighbor_id]
                  known == old \in DOMAIN st.fix
                  blocks == IF known THEN st.blocks ELSE new_label(st.blocks)
                  new == IF known THEN st.fix[old] ELSE Len(blocks)
                  fix == IF known THEN st.fix ELSE (old :> new) @@ st.fix
                  erased == [blocks EXCEPT ![old].vertex_map = @ \ {neighbor_id}]
              IN  refine([st EXCEPT
                             !.blocks = [erased EXCEPT ![new].vertex_map =
                                                          @ \cup {neighbor_id}],
                             !.label[neighbor_id] = new,
                             !.fix = fix],
                         unordered, Tail(nbrs))
         ELSE refine(st, unordered, Tail(nbrs))

\* Variant of splice: head is left as it is when the new block goes in front
\* of the first block.
RECURSIVE splice_keep_head(_, _)
splice_keep_head(st, entries) ==
    IF entries = <<>> THEN st
    ELSE LET label == Head(entries)
             new == st.fix[label]
             prev == st.blocks[label].prev
             relinked == IF prev # 0
                         THEN [st.blocks EXCEPT ![prev].next = new]
                         ELSE st.blocks
         IN  splice_keep_head([st EXCEPT
                        !.blocks = [relinked EXCEPT ![new].next = label,
                                                    ![new].prev = prev,
                                                    ![label].prev = new]],
                    Tail(entries))

\* Lines 122-131: every new block is linked in right before the block it was
\* split from; entries is fix in the order the unordered_map hands it out.
RECURSIVE splice(_, _)
splice(st, entries) ==
    IF entries = <<>> THEN st
    ELSE LET label == Head(entries)
             new == st.fix[label]
             prev == st.blocks[label].prev
             relinked == IF prev # 0
                         THEN [st.blocks EXCEPT ![prev].next = new]
                         ELSE st.blocks
         IN  splice([st EXCEPT
                        !.head = IF prev # 0 THEN @ ELSE new,
                        !.blocks = [relinked EXCEPT ![new].next = label,
                                                    ![new].prev = prev,
                                                    ![label].prev = new]],
                    Tail(entries))

\* Lines 136-144: the blocks met from head on, in that order.
RECURSIVE walk(_, _)
walk(blocks, head) ==
    IF head = 0 THEN <<>> ELSE <<head>> \o walk(blocks, blocks[head].next)

\* Lines 58-70: one block, the head, holds the record of every vertex.
LexPCall ==
    /\ pc = "idle" /\ ret = None
    /\ pc' = "lex_p_loop"
    /\ lp' = [head |-> 1,
              blocks |-> <<[vertex_map |-> iter_vertices(g), prev |-> 0, next |-> 0]>>,
              label |-> [v \in iter_vertices(g) |-> 1],
              unordered |-> iter_vertices(g),
              fix |-> <<>>,
              cur_vertex |-> 0,
              index |-> num_vertices(g) - 1]
    /\ order' = [i \in 0 .. num_vertices(g) - 1 |-> 0]
    /\ ret' = None
    /\ UNCHANGED <<g, g0, fills, fl, lm, rs>>

\* Lines 73-134: one pass of the main loop.  The vertex picked is any vertex
\* of the first block found that is still in unordered; assert(cur_vertex)
\* ends the program when no block has one.
LexPIteration ==
    /\ pc = "lex_p_loop"
    /\ LET label == scan_labels(lp.blocks, lp.head, lp.unordered) IN
       IF label = 0
       THEN /\ pc' = "abort"
            /\ UNCHANGED <<order, lp>>
       ELSE \E cur_vertex \in lp.blocks[label].vertex_map \cap lp.unordered :
              LET unordered == lp.unordered \ {cur_vertex}
                  picked == [lp EXCEPT !.unordered = unordered,
                                       !.cur_vertex = cur_vertex]
                  refined == refine(picked, unordered,
                                    iter_neighbors(g, cur_vertex))
                  index == decrement(lp.index)
              IN  /\ \E entries \in Arrangements(DOMAIN refined.fix) :
                        lp' = [splice(refined, entries) EXCEPT !.fix = <<>>,
                                                               !.index = index]
                  /\ order' = [order EXCEPT ![lp.index] = cur_vertex]
                  /\ pc' = IF index < num_vertices(g) THEN "lex_p_loop"
                                                      ELSE "lex_p_teardown"
    /\ UNCHANGED <<g, g0, fills, ret, fl, lm, rs>>

\* Lines 136-146: the blocks of the list and the records in their maps are
\* deleted, then the order is returned.
LexPReturn ==
    /\ pc = "lex_p_teardown"
    /\ LET deleted == walk(lp.blocks, lp.head) IN
       lp' = [allocated |-> Len(lp.blocks),
              deleted_labels |-> deleted,
              deleted_vertices |->
                  [k \in DOMAIN deleted |-> lp.blocks[deleted[k]].vertex_map]]
    /\ pc' = "idle"
    /\ ret' = [fn |-> "lex_p", val |-> order]
    /\ UNCHANGED <<g, g0, order, fills, fl, lm, rs>>

ConnectedGraphs(n) == {gr \in SimpleGraphs(n) : Connected(gr)}

InitLex ==
    /\ g \in UNION {ConnectedGraphs(n) : n \in 1 .. MaxLexVertices}
    /\ g0 = g
    /\ order = <<>>
    /\ pc = "idle"
    /\ fills = 0
    /\ ret = None
    /\ fl = NoLocals
    /\ lm = NoLocals
    /\ lp = NoLocals
    /\ rs = NoLocals

NextLex ==
    \/ LexMCall \/ LexMIteration
    \/ LexPCall \/ LexPIteration \/ LexPReturn

SpecLex == InitLex /\ [][NextLex]_vars

(***************************************************************************)
(* The caller of the tests: lex_m or lex_p may compute the order on which   *)
(* the FILL family is then called.                                         *)
(***************************************************************************)
NextFrame == NextFill \/ NextLex

SpecFrame == InitFill /\ [][NextFrame]_vars

(***************************************************************************)
(* A call of radix_sort on the sequence rs.s with the key map rs.map.      *)
(***************************************************************************)

\* Lines 35-40: the largest key of the range.
RadixCall ==
    /\ pc = "idle" /\ ret = None
    /\ pc' = "radix_loop"
    /\ rs' = [rs EXCEPT !.max = radix_max(rs.s, rs.map), !.shift = 0]
    /\ UNCHANGED <<g, g0, order, fills, ret, fl, lm, lp>>

\* Lines 42-53: one pass over the digit at shift.
RadixPass ==
    /\ pc = "radix_loop"
    /\ radix_continue(rs.max, rs.shift, KeyBits)
    /\ rs' = [rs EXCEPT !.s = radix_pass(rs.s, rs.map, rs.shift),
                        !.shift = @ + 4,
                        !.passes = @ + 1]
    /\ UNCHANGED <<g, g0, order, pc, fills, ret, fl, lm, lp>>

\* Line 54: the loop is over; the range holds the result.
RadixReturn ==
    /\ pc = "radix_loop"
    /\ ~ radix_continue(rs.max, rs.shift, KeyBits)
    /\ pc' = "idle"
    /\ ret' = [fn |-> "radix_sort", val |-> rs.s]
    /\ UNCHANGED <<g, g0, order, fills, fl, lm, lp, rs>>

\* Keys of two base-16 digits, each digit in 0..MaxDigit.
RadixKeys == {16 * hi + lo : hi \in 0 .. MaxDigit, lo \in 0 .. MaxDigit}

RadixValues == 0 .. MaxLen - 1

\* The inputs: a sequence of at most MaxLen values, repetitions allowed, and
\* a key for every value that occurs.  s0 keeps the input sequence.
InitRadix ==
    /\ \E len \in 0 .. MaxLen :
       \E s \in [1 .. len -> RadixValues] :
       \E map \in [Range(s) -> RadixKeys] :
          rs = [s |-> s, s0 |-> s, map |-> map, max |-> 0, shift |-> 0,
                passes |-> 0]
    /\ g = GraphOn(1, {})
    /\ g0 = g
    /\ order = <<>>
    /\ pc = "idle"
    /\ fills = 0
    /\ ret = None
    /\ fl = NoLocals
    /\ lm = NoLocals
    /\ lp = NoLocals

NextRadix == RadixCall \/ RadixPass \/ RadixReturn

SpecRadix == InitRadix /\ [][NextRadix]_vars

(***************************************************************************)
(* Reference notions the properties are stated against.                    *)
(***************************************************************************)

\* The elimination game: the vertices are eliminated in the given order and
\* the not yet eliminated neighbours of the eliminated vertex, in the graph
\* with the edges added so far, are made a clique.  F is the set of added
\* edges, i the index of the next vertex to eliminate.
RECURSIVE EliminationGame(_, _, _, _, _)
EliminationGame(E, ord, n, F, i) ==
    IF i = n THEN F
    ELSE LET v == ord[i]
             later == {ord[j] : j \in i + 1 .. n - 1}
             nb == {w \in later : {v, w} \in E \cup F}
             clique == {e \in SUBSET nb : Cardinality(e) = 2}
         IN  EliminationGame(E, ord, n, F \cup (clique \ E), i + 1)

EliminationFill(gr, ord) == EliminationGame(Edges(gr), ord, num_vertices(gr), {}, 0)

\* An edge set as the set of pairs with the smaller vertex first.
Canonical(F) == {<<Min(e), Max(e)>> : e \in F}

Unordered(P) == {{p[1], p[2]} : p \in P}

IsComplete(gr) == Edges(gr) = AllPairs(num_vertices(gr))

\* The subgraph induced by S is a cycle: it is connected and every vertex of S
\* has exactly two neighbours in S.
RECURSIVE ReachableWithin(_, _, _)
ReachableWithin(gr, S, R) ==
    LET T == R \cup (S \cap UNION {Nbrs(gr, v) : v \in R})
    IN  IF T = R THEN R ELSE ReachableWithin(gr, S, T)

InducedCycle(gr, S) ==
    /\ \A v \in S : Cardinality(Nbrs(gr, v) \cap S) = 2
    /\ \A v \in S : ReachableWithin(gr, S, {v}) = S

\* Every cycle of length >= 4 has a chord: no set of four or more vertices
\* induces a cycle.
Chordal(gr) ==
    ~ \E S \in SUBSET iter_vertices(gr) : Cardinality(S) >= 4 /\ InducedCycle(gr, S)

StrictSubset(A, B) == A \subseteq B /\ A # B

IsVertexOrder(gr, ord) ==
    /\ DOMAIN ord = 0 .. num_vertices(gr) - 1
    /\ \A v \in iter_vertices(gr) :
          Cardinality({i \in DOMAIN ord : ord[i] = v}) = 1

(***************************************************************************)
(* Properties of the FILL family, checked under SpecFill.                  *)
(***************************************************************************)

\* C1: on a simple connected graph fill_in returns exactly the fill-in of the
\* elimination game played in the given order (each pair once, smaller vertex
\* first); on the graph and order of the known_graph test it returns
\* {(0,3), (1,2)}.
C1_FillInIsEliminationFill ==
    (ret.fn = "fill_in" /\ Connected(g)) =>
        /\ ret.val = Canonical(EliminationFill(g, order))
        /\ (g = KnownGraph /\ order = KnownOrder) => ret.val = {<<0, 3>>, <<1, 2>>}

C1_Witness ==
    /\ ret.fn = "fill_in" /\ g = KnownGraph /\ order = KnownOrder
    /\ ret.val = {<<0, 3>>, <<1, 2>>}

\* C5: is_perfect_elimination_order returns true exactly when fill_in on the
\* same graph and order returns the empty set.
C5_PeoIffEmptyFillIn ==
    /\ ret.fn = "is_peo" => (ret.val <=> fill_in(g, order) = {})
    /\ ret.fn = "fill_in" => (ret.val = {} <=> is_perfect_elimination_order(g, order))

C5_Witness ==
    /\ ret.fn = "is_peo" /\ ret.val = FALSE
    /\ fill_in(g, order) # {}
    /\ fl = NoLocals

\* C6: after the first fill on a copy of the graph the edge set is the original
\* edge set united with the pairs of fill_in on the original graph.
C6_FillAddsExactlyFillIn ==
    (ret.fn = "fill" /\ fills = 1) =>
        Edges(g) = Edges(g0) \cup Unordered(fill_in(g0, order))

C6_Witness ==
    /\ ret.fn = "fill" /\ fills = 1
    /\ Cardinality(Edges(g) \ Edges(g0)) >= 2

\* C7: once fill has run, fill_in returns the empty set,
\* is_perfect_elimination_order returns true, and a second fill calls
\* add_edge not once and leaves the graph as it is.
C7_FillIdempotent ==
    fills >= 1 =>
        /\ ret.fn = "fill_in" => ret.val = {}
        /\ ret.fn = "is_peo" => ret.val = TRUE
        /\ pc = "fill" => fl.added = <<>>
        /\ (ret.fn = "fill" /\ fills = 2) => ret.val = {}
        /\ fill_in(g, order) = {}
        /\ is_perfect_elimination_order(g, order)

C7_Witness ==
    /\ fills = 2 /\ ret.fn = "fill" /\ ret.val = {}
    /\ Edges(g) # Edges(g0)

\* C9: on a complete graph, whatever the order, fill_in returns the empty set,
\* is_perfect_elimination_order returns true and fill leaves the graph as it
\* was.
C9_CompleteGraph ==
    IsComplete(g0) =>
        /\ ret.fn = "fill_in" => ret.val = {}
        /\ ret.fn = "is_peo" => ret.val = TRUE
        /\ ret.fn = "fill" => ret.val = {}
        /\ g = g0

C9_Witness ==
    /\ IsComplete(g0) /\ num_vertices(g0) >= 4
    /\ ret.fn = "fill" /\ fills = 1 /\ g = g0

(***************************************************************************)
(* Properties of LEX M and LEX P, checked under SpecLex.                   *)
(***************************************************************************)

\* A pass of a main loop either leaves the loop or lowers the index, which
\* is never negative; the teardown of lex_p returns.
LexProgress ==
    /\ pc = "lex_m_loop" =>
          \/ pc' = "idle" /\ ret'.fn = "lex_m"
          \/ pc' = "lex_m_loop" /\ lm'.index < lm.index /\ lm'.index >= 0
    /\ pc = "lex_p_loop" =>
          \/ pc' = "lex_p_teardown"
          \/ pc' = "lex_p_loop" /\ lp'.index < lp.index /\ lp'.index >= 0
    /\ pc = "lex_p_teardown" => pc' = "idle" /\ ret'.fn = "lex_p"

\* C4: a call of lex_m or of lex_p on a valid graph returns, and what it
\* returns is a sequence of length |V| that holds every vertex exactly once.
\* That the call returns is stated step by step: a call under way is never
\* aborted and every step of it makes progress (a step is possible whenever
\* a call is under way: the actions are guarded by pc alone).
C4_LexReturnsPermutation ==
    /\ [](ret.fn \in {"lex_m", "lex_p"} => IsVertexOrder(g, ret.val))
    /\ [](pc \in {"idle", "lex_m_loop", "lex_p_loop", "lex_p_teardown"})
    /\ [][LexProgress]_vars

C4_Witness ==
    /\ ret.fn \in {"lex_m", "lex_p"} /\ pc = "idle"
    /\ num_vertices(g) = 5 /\ ~ IsComplete(g)
    /\ ret.val[0] # 0 /\ IsVertexOrder(g, ret.val)

\* C2: the order returned by lex_m is a minimal elimination order: the fill-in
\* of no permutation of the vertices is a strict subset of its fill-in,
\* whatever the starting vertex, the tie-breaks and the adjacency order.
C2_LexMMinimal ==
    ret.fn = "lex_m" =>
        LET f == fill_in(g, ret.val) IN
        f # {} => \A o \in Permutations0(num_vertices(g)) :
                     ~ StrictSubset(fill_in(g, o), f)

C2_Witness ==
    /\ ret.fn = "lex_m"
    /\ fill_in(g, ret.val) # {}
    /\ \E o \in Permutations0(num_vertices(g)) :
          StrictSubset(fill_in(g, ret.val), fill_in(g, o))

\* C3: on a chordal graph the order returned by lex_p is a perfect elimination
\* order: its fill-in is empty and is_perfect_elimination_order accepts it.
C3_LexPPerfectOnChordal ==
    (ret.fn = "lex_p" /\ Chordal(g)) =>
        /\ fill_in(g, ret.val) = {}
        /\ is_perfect_elimination_order(g, ret.val)

C3_Witness ==
    /\ ret.fn = "lex_p" /\ Chordal(g) /\ ~ IsComplete(g)
    /\ num_vertices(g) >= 5
    /\ \E o \in Permutations0(num_vertices(g)) : fill_in(g, o) # {}
    /\ fill_in(g, ret.val) = {}

\* C8: on a chordal graph the order returned by lex_m has an empty fill-in and
\* is_perfect_elimination_order accepts it.
C8_LexMPerfectOnChordal ==
    (ret.fn = "lex_m" /\ Chordal(g)) =>
        /\ fill_in(g, ret.val) = {}
        /\ is_perfect_elimination_order(g, ret.val)

C8_Witness ==
    /\ ret.fn = "lex_m" /\ Chordal(g) /\ ~ IsComplete(g)
    /\ num_vertices(g) >= 5
    /\ \E o \in Permutations0(num_vertices(g)) : fill_in(g, o) # {}
    /\ is_perfect_elimination_order(g, ret.val)

(***************************************************************************)
(* Property of radix_sort, checked under SpecRadix.                        *)
(***************************************************************************)
KeyOf(v) == MapGet(rs.map, v, 0)

WithKey(s, k) == SelectSeq(s, LAMBDA v : KeyOf(v) = k)

\* C10: radix_sort leaves the range non-decreasing in the key, and for every
\* key the values with that key are the input's values with that key in the
\* input's order: the result is a permutation of the input and equal keys
\* keep their relative order; with all keys 0 no pass runs and the range is
\* left as it was.
C10_RadixSortStable ==
    ret.fn = "radix_sort" =>
        /\ Len(ret.val) = Len(rs.s0)
        /\ \A i, j \in DOMAIN ret.val : i < j => KeyOf(ret.val[i]) <= KeyOf(ret.val[j])
        /\ \A k \in RadixKeys : WithKey(ret.val, k) = WithKey(rs.s0, k)
        /\ (\A v \in Range(rs.s0) : KeyOf(v) = 0) =>
               (rs.passes = 0 /\ ret.val = rs.s0)

C10_Witness ==
    /\ ret.fn = "radix_sort" /\ rs.passes = 2 /\ ret.val # rs.s0
    /\ \E i, j \in DOMAIN rs.s0 :
          /\ i < j /\ rs.s0[i] # rs.s0[j] /\ KeyOf(rs.s0[i]) = KeyOf(rs.s0[j])
          /\ \E k \in DOMAIN rs.s0 : KeyOf(rs.s0[k]) < KeyOf(rs.s0[i]) /\ i < k

(***************************************************************************)
(* Frame of the calls, checked under SpecFrame.                            *)
(***************************************************************************)

\* A step that changes the graph is a step of the main loop of fill.
OnlyFillMutates ==
    /\ g' # g => (pc = "fill" /\ pc' = "fill")
    /\ num_vertices(g') = num_vertices(g)
    /\ pc # "fill" => Edges(g') = Edges(g)

\* C11: fill_in, is_perfect_elimination_order, lex_m and lex_p leave the vertex
\* set and the edge set of the graph as they are: only a step of fill changes
\* the graph, and it never changes the vertex set.
C11_OnlyFillMutates == [][OnlyFillMutates]_vars

C11_Witness ==
    /\ ret.fn = "fill_in" /\ ret.val # {} /\ fills = 0
    /\ g = g0 /\ Connected(g)

(***************************************************************************)
(* Properties of the loop of the FILL family, checked under SpecFill.      *)
(***************************************************************************)

\* No vertex is its own neighbour and no neighbour is listed twice.
IsSimple(gr) ==
    \A v \in iter_vertices(gr) :
        /\ v \notin Nbrs(gr, v)
        /\ Len(iter_neighbors(gr, v)) = Cardinality(Nbrs(gr, v))

\* C12: every add_edge(closest, w) call of fill joins two distinct vertices
\* that are not adjacent in the graph as it is at the call (the original edges
\* and the edges added so far): the graph stays simple throughout, and every
\* call adds one edge that the graph did not have when fill was called.
C12_FillAddsOnlyNewEdges ==
    /\ IsSimple(g)
    /\ pc = "fill" =>
          /\ \A k \in DOMAIN fl.added : fl.added[k][1] # fl.added[k][2]
          /\ \A j, k \in DOMAIN fl.added :
                j # k => {fl.added[j][1], fl.added[j][2]}
                             # {fl.added[k][1], fl.added[k][2]}
          /\ fills = 0 =>
                /\ Unordered(Range(fl.added)) \cap Edges(g0) = {}
                /\ Edges(g) = Edges(g0) \cup Unordered(Range(fl.added))

C12_Witness ==
    /\ pc = "fill" /\ fills = 0 /\ Len(fl.added) >= 2
    /\ fl.i = num_vertices(g) - 1

InFillFamily == pc \in {"fill", "fill_in", "is_peo"}

\* The vertex the main loop is about to process.
AboutToProcess == InFillFamily /\ fl.i # num_vertices(g) - 1

\* The edges of the graph and the edges emitted so far by the running call:
\* fill puts them in the graph, fill_in in fill_in_edges.
EdgesSoFar ==
    Edges(g) \cup (IF pc = "fill_in" THEN Unordered(fl.fill_in_edges) ELSE {})

\* C13: when a vertex v of the order is about to be processed, succ[v] is the
\* set of the vertices of greater index than v that are joined to v by an
\* edge of the graph or by an edge emitted so far; so every w in succ[v] has
\* index(v) < index(w).
C13_SuccInvariant ==
    AboutToProcess =>
        LET v == order[fl.i] IN
        /\ fl.succ[v] = {w \in iter_vertices(g) :
                            /\ {v, w} \in EdgesSoFar
                            /\ fl.index_of[v] < fl.index_of[w]}
        /\ \A w \in fl.succ[v] : fl.index_of[v] < fl.index_of[w]

C13_Witness ==
    /\ AboutToProcess /\ pc = "fill_in"
    /\ \E w \in fl.succ[order[fl.i]] :
          /\ {order[fl.i], w} \notin Edges(g)
          /\ {order[fl.i], w} \in Unordered(fl.fill_in_edges)

\* C14: on a connected graph with a permutation as the order, every vertex
\* the main loop of fill, fill_in or is_perfect_elimination_order processes
\* has a non-empty succ[v] when it is processed, so min_index < |V| and
\* order[min_index] is read within bounds; only the last vertex of the order,
\* which the loop does not process, has an empty succ.
C14_SuccNonEmptyWhenConnected ==
    (InFillFamily /\ Connected(g)) =>
        LET n == num_vertices(g) IN
        /\ fl.i # n - 1 =>
              /\ fl.succ[order[fl.i]] # {}
              /\ find_min_index(fl.succ[order[fl.i]], fl.index_of, n) < n
        /\ fl.i > 0 =>
              /\ fl.min_index < n
              /\ fl.min_index \in DOMAIN order
              /\ fl.closest = order[fl.min_index]
        /\ fl.succ[order[n - 1]] = {}

C14_Witness ==
    /\ pc = "fill" /\ Connected(g0) /\ ~ IsComplete(g0)
    /\ num_vertices(g) >= 4 /\ fl.i = num_vertices(g) - 1
    /\ fl.min_index < num_vertices(g) /\ fl.added # <<>>

\* C15: a vertex whose succ[v] is empty when it is processed is skipped: the
\* order is not read for a closest successor, no successor set changes and
\* no edge is emitted.
C15_EmptySuccSkipped ==
    [][(AboutToProcess /\ fl.succ[order[fl.i]] = {} /\ pc' = pc) =>
          /\ fl'.lookups = fl.lookups
          /\ fl'.succ = fl.succ
          /\ fl'.fill_in_edges = fl.fill_in_edges
          /\ g' = g]_vars

(***************************************************************************)
(* Properties of the loops of LEX M and LEX P, checked under SpecLex.      *)
(***************************************************************************)

\* C16: after the relabelling of every pass of lex_m the labels of the
\* unnumbered vertices are exactly the values 0, 2, ..., 2(k-1), every value
\* used, with k = n_unique_labels; the relabelling keeps the order of the
\* labels (equal stay equal, smaller stays smaller); and the vertex picked as
\* the next cur_vertex has the largest label, 2(k-1).
C16_LabelsDenseEven ==
    pc = "lex_m_loop" =>
        LET k == lm.n_unique_labels IN
        /\ {lm.label[v] : v \in lm.unnumbered} = {2 * j : j \in 0 .. k - 1}
        /\ \A u, v \in lm.unnumbered :
              /\ lm.unrelabelled[u] < lm.unrelabelled[v] <=> lm.label[u] < lm.label[v]
              /\ lm.unrelabelled[u] = lm.unrelabelled[v] <=> lm.label[u] = lm.label[v]
        /\ lm.cur_vertex \in lm.unnumbered
        /\ lm.label[lm.cur_vertex] = 2 * (k - 1)

C16_Witness ==
    /\ pc = "lex_m_loop" /\ lm.n_unique_labels >= 3
    /\ \E v \in lm.unnumbered :
          lm.unrelabelled[v] % 2 = 1 /\ lm.label[v] > lm.unrelabelled[v]
    /\ \E v \in lm.unnumbered :
          lm.unrelabelled[v] % 2 = 1 /\ lm.label[v] < lm.unrelabelled[v]

\* The positions of the sequence of <<key, vertex>> pairs that name v.
Occurrences(pairs, v) == {k \in DOMAIN pairs : pairs[k][2] = v}

\* A pass of the main loop of lex_m, seen from its two ends: lm holds
\* n_unique_labels and the labels the pass started with, lm' what it reached,
\* queued and popped, and in unrelabelled the labels the BFS loop left.
ReachedOnce ==
    pc = "lex_m_loop" =>
        /\ lm'.reached \subseteq lm.unnumbered \ {lm.cur_vertex}
        /\ {lm'.queued[k][2] : k \in DOMAIN lm'.queued} = lm'.reached
        /\ \A v \in lm'.reached :
              /\ Cardinality(Occurrences(lm'.queued, v)) = 1
              /\ Cardinality(Occurrences(lm'.popped, v)) = 1
              /\ \A k \in Occurrences(lm'.queued, v) :
                    /\ lm'.queued[k][1] % 2 = 0
                    /\ lm'.queued[k][1] < 2 * lm.n_unique_labels
                    /\ \A j \in Occurrences(lm'.popped, v) :
                          lm'.popped[j][1] = lm'.queued[k][1]
        /\ Len(lm'.popped) = Len(lm'.queued)
        /\ \A key \in DOMAIN lm'.to_reach : lm'.to_reach[key] = <<>>
        /\ \A v \in iter_vertices(g) :
              lm'.unrelabelled[v] - lm.label[v] \in
                  (IF v \in lm'.reached THEN {0, 1} ELSE {0})

\* C17: in every pass of lex_m each unnumbered vertex marked reached is put
\* in exactly one reach bucket, under an even key below 2 * n_unique_labels,
\* and is popped from that bucket exactly once before the BFS loop of the
\* pass ends; no label is incremented more than once in a pass.
C17_ReachedOnce == [][ReachedOnce]_vars

C17_Witness ==
    /\ pc = "lex_m_loop" /\ Len(lm.popped) >= 3
    /\ \E j, k \in DOMAIN lm.queued : lm.queued[j][1] > lm.queued[k][1] /\ k > j
    /\ \E k \in DOMAIN lm.popped : k > 1 /\ lm.popped[k] # lm.queued[k]

\* The pass of lex_m's main loop about to run is the first one.
FirstPass == pc = "lex_m_loop" /\ lm.index = num_vertices(g) - 1

\* C18 as stated: on the first pass of lex_m's main loop (n_unique_labels = 1,
\* every label 0) the body of the BFS loop does not execute: no vertex is
\* popped from a reach bucket and no neighbour of a reached vertex is explored.
C18_FirstPassNoBfs ==
    [][FirstPass => (lm'.popped = <<>> /\ Len(lm'.queued) = 0)]_vars

FirstPassLevelZero ==
    FirstPass =>
        /\ lm.n_unique_labels = 1
        /\ \A v \in iter_vertices(g) : lm.label[v] = 0
        /\ \A k \in DOMAIN lm'.popped : lm'.popped[k][1] = 0
        /\ \A k \in DOMAIN lm'.queued : lm'.queued[k][1] = 0
        /\ {lm'.popped[k][2] : k \in DOMAIN lm'.popped} = lm'.reached
        /\ \A v \in iter_vertices(g) :
              lm'.unrelabelled[v] =
                  (IF v \in Nbrs(g, lm.cur_vertex) THEN 1 ELSE 0)
        /\ lm'.popped = <<>> <=> Nbrs(g, lm.cur_vertex) = {}

\* C18 as amended: on the first pass of lex_m's main loop the BFS loop runs
\* at level 0 only: every reached vertex is queued in and popped from bucket
\* 0, and exploring the popped vertices increments no label, so the labels
\* the pass leaves are 1 for the neighbours of cur_vertex and 0 for all other
\* vertices; the body does not execute only when cur_vertex has no neighbour.
C18_FirstPassLevelZero == [][FirstPassLevelZero]_vars

C18_Witness ==
    /\ pc = "lex_m_loop" /\ lm.index = num_vertices(g) - 2
    /\ Len(lm.popped) >= 3
    /\ \E v \in lm.reached : lm.unrelabelled[v] = 0
    /\ \E v \in lm.reached : lm.unrelabelled[v] = 1

\* The blocks linked in the list, from head on.
Linked == Range(walk(lp.blocks, lp.head))

\* A pass of lex_p's main loop has ended and unnumbered vertices remain.
BetweenPasses == pc = "lex_p_loop" /\ lp.index < num_vertices(g) - 1

\* C19 as stated: at the end of every pass of lex_p's main loop every block
\* linked in the list holds at least one not-yet-numbered vertex and no
\* already-numbered vertex.
C19_BlocksHoldUnnumbered ==
    BetweenPasses =>
        \A b \in Linked :
            /\ lp.blocks[b].vertex_map \cap lp.unordered # {}
            /\ lp.blocks[b].vertex_map \subseteq lp.unordered

\* A pass of lex_p's main loop, seen from its two ends: the blocks it has
\* created are those past the end of lp.blocks.
NewBlocksHoldUnnumbered ==
    (pc = "lex_p_loop" /\ pc' # "abort") =>
        LET linked == Range(walk(lp'.blocks, lp'.head))
            cur == lp'.cur_vertex
        IN  /\ \A b \in Len(lp.blocks) + 1 .. Len(lp'.blocks) :
                  /\ b \in linked
                  /\ lp'.blocks[b].vertex_map # {}
                  /\ lp'.blocks[b].vertex_map \subseteq lp'.unordered
            /\ \A b \in DOMAIN lp.blocks : b \in linked
            /\ cur \notin lp'.unordered
            /\ cur \in lp'.blocks[lp'.label[cur]].vertex_map
            /\ lp'.unordered # {} =>
                  \E b \in linked : lp'.blocks[b].vertex_map \cap lp'.unordered # {}

\* C19 as amended: at the end of every pass of lex_p's main loop every block
\* created in that pass is linked in the list and holds at least one
\* not-yet-numbered vertex and no already-numbered vertex; the vertex numbered
\* in the pass stays in the map of its block, and a block of an earlier pass
\* stays linked even when it is left with numbered vertices only or with no
\* vertex at all; as long as a vertex is unnumbered, some linked block holds
\* an unnumbered vertex.
C19_NewBlocksHoldUnnumbered == [][NewBlocksHoldUnnumbered]_vars

C19_Witness ==
    /\ BetweenPasses /\ lp.unordered # {}
    /\ \E b \in Linked : lp.blocks[b].vertex_map = {}
    /\ \E b \in Linked :
          lp.blocks[b].vertex_map # {} /\ lp.blocks[b].vertex_map \cap lp.unordered = {}
    /\ \E b \in Linked :
          lp.blocks[b].vertex_map # {} /\ lp.blocks[b].vertex_map \subseteq lp.unordered

\* The blocks, linked or not, whose map holds the vertex v.
BlocksHolding(v) == {b \in DOMAIN lp.blocks : v \in lp.blocks[b].vertex_map}

\* C20: at the end of every pass of lex_p's main loop (and when the loop is
\* entered) every not-yet-numbered vertex is a member of exactly one block,
\* that block is linked in the list reachable from head, and the label
\* pointer of the vertex designates that block.
C20_UnnumberedInOneLinkedBlock ==
    pc \in {"lex_p_loop", "lex_p_teardown"} =>
        \A v \in lp.unordered :
            /\ Cardinality(BlocksHolding(v)) = 1
            /\ BlocksHolding(v) = {lp.label[v]}
            /\ lp.label[v] \in Linked

C20_Witness ==
    /\ BetweenPasses /\ lp.head # 1
    /\ Cardinality({lp.label[v] : v \in lp.unordered}) >= 3
    /\ \A v \in lp.unordered : BlocksHolding(v) = {lp.label[v]}

\* The positions of the teardown walk at which the block b is deleted, and
\* those at which the record of the vertex v is deleted.
LabelDeletions(b) == {k \in DOMAIN lp.deleted_labels : lp.deleted_labels[k] = b}

VertexDeletions(v) == {k \in DOMAIN lp.deleted_vertices : v \in lp.deleted_vertices[k]}

\* C21: when lex_p returns, every Label block allocated during the call
\* (the head and every block the refinement created) and the record of
\* every vertex, numbered or not, has been deleted exactly once: every
\* allocated block is met by the teardown walk, once, and every record is in
\* the map of exactly one of the blocks met; nothing else is deleted.
C21_FreedExactlyOnce ==
    ret.fn = "lex_p" =>
        /\ Range(lp.deleted_labels) = 1 .. lp.allocated
        /\ \A b \in 1 .. lp.allocated : Cardinality(LabelDeletions(b)) = 1
        /\ \A v \in iter_vertices(g) : Cardinality(VertexDeletions(v)) = 1
        /\ \A k \in DOMAIN lp.deleted_vertices :
              lp.deleted_vertices[k] \subseteq iter_vertices(g)

C21_Witness ==
    /\ ret.fn = "lex_p" /\ lp.allocated >= 4
    /\ Len(lp.deleted_labels) = lp.allocated
    /\ lp.deleted_labels[1] # 1
    /\ \E k \in DOMAIN lp.deleted_vertices : lp.deleted_vertices[k] = {}
    /\ \E k \in DOMAIN lp.deleted_vertices : Cardinality(lp.deleted_vertices[k]) >= 2
====
